---- MODULE Spec2Model ----
(***************************************************************************)
(* The portfolio RAG engine (app/services/rag_service.py, SimpleRAG) with  *)
(* the document parser it calls at start-up.  The persisted-index          *)
(* directory and the documents directory are the two pieces of disk state; *)
(* the rest is the engine object of one process.                           *)
(***************************************************************************)
EXTENDS Integers, Sequences, FiniteSets, TLC

VARIABLES
    docsDir,        \* settings.DOCUMENTS_DIR: absent, or the files in it
    persisted,      \* settings.CHROMA_PERSIST_DIRECTORY on disk
    vectorstore,    \* SimpleRAG.vectorstore (None or an open handle)
    openai_client,  \* SimpleRAG.openai_client is set
    up,             \* the module-level rag_service object exists
    last,           \* what the last call did and returned
    hist,           \* what happened before the last call
    calls           \* where each concurrent caller is in its call

vars == <<docsDir, persisted, vectorstore, openai_client, up, last, hist, calls>>

---------------------------------------------------------------------------
(* Program constants *)

chunk_size == 1000
chunk_overlap == 200
AnswerCap == 1200
MinContent == 500
AnswerK == 5

(* Bounds of the model *)

MaxChunks == 2      \* chunks an index holds at most
MaxFiles == 2       \* files in the documents directory at most
MaxK == 1           \* largest k a search caller passes
MaxDots == 2        \* sentence terminators in a context of BasicSpec
MaxThreads == 2     \* concurrent callers of the engine in ConcSpec

---------------------------------------------------------------------------
(* Text *)

\* A string is kept as its runs of equal characters, in order: "aa.a" is
\* <<[c |-> "a", n |-> 2], [c |-> ".", n |-> 1], [c |-> "a", n |-> 1]>>.
\* No run is empty and neighbouring runs differ in their character, so equal
\* strings are equal values.

Min(a, b) == IF a < b THEN a ELSE b

\* The character c, n times
Str(c, n) == IF n <= 0 THEN <<>> ELSE <<[c |-> c, n |-> n]>>

\* len(s)
RECURSIVE StrLen(_)
StrLen(s) == IF s = <<>> THEN 0 ELSE Head(s).n + StrLen(Tail(s))

\* a + b
Cat(a, b) ==
    IF a = <<>> THEN b
    ELSE IF b = <<>> THEN a
    ELSE IF a[Len(a)].c = b[1].c
    THEN SubSeq(a, 1, Len(a) - 1)
         \o <<[c |-> b[1].c, n |-> a[Len(a)].n + b[1].n]>>
         \o Tail(b)
    ELSE a \o b

\* s[:m]
RECURSIVE Take(_, _)
Take(s, m) ==
    IF m <= 0 \/ s = <<>> THEN <<>>
    ELSE IF Head(s).n <= m THEN <<Head(s)>> \o Take(Tail(s), m - Head(s).n)
    ELSE <<[c |-> Head(s).c, n |-> m]>>

\* s[m:]
RECURSIVE Drop(_, _)
Drop(s, m) ==
    IF m <= 0 \/ s = <<>> THEN s
    ELSE IF Head(s).n <= m THEN Drop(Tail(s), m - Head(s).n)
    ELSE <<[c |-> Head(s).c, n |-> Head(s).n - m]>> \o Tail(s)

\* s[from:to], 0 <= from <= to
Slice(s, from, to) == Take(Drop(s, from), to - from)

\* s.rfind(c): 0-based index of the last c, -1 when there is none
RECURSIVE RFind(_, _)
RFind(s, c) ==
    IF s = <<>> THEN -1
    ELSE IF s[Len(s)].c = c THEN StrLen(s) - 1
    ELSE RFind(SubSeq(s, 1, Len(s) - 1), c)

Whitespace == {" ", "\n"}

\* s.strip()
Strip(s) ==
    LET keep == {i \in 1..Len(s) : s[i].c \notin Whitespace}
    IN  IF keep = {} THEN <<>>
        ELSE SubSeq(s, CHOOSE i \in keep : \A j \in keep : i <= j,
                       CHOOSE i \in keep : \A j \in keep : j <= i)

\* n characters: a "." at the (1-based) positions in dots, a letter elsewhere
RECURSIVE Text(_, _)
Text(n, dots) ==
    LET in == {d \in dots : d <= n}
    IN  IF in = {} THEN Str("a", n)
        ELSE LET d == CHOOSE x \in in : \A y \in in : y <= x
             IN  Cat(Cat(Text(d - 1, in \ {d}), Str(".", 1)), Str("a", n - d))

\* "\n\n".join(parts)
RECURSIVE Join(_)
Join(parts) ==
    IF parts = <<>> THEN <<>>
    ELSE IF Len(parts) = 1 THEN parts[1]
    ELSE Cat(Cat(parts[1], Str("\n", 2)), Join(Tail(parts)))

\* RecursiveCharacterTextSplitter(chunk_size, chunk_overlap).split_text on a
\* text without interior whitespace: no separator but "" is found, so the
\* text is cut every chunk_size characters, each cut keeping the last
\* chunk_overlap characters for the next chunk; no chunk for empty text.
SplitStep == chunk_size - chunk_overlap

split_text(text) ==
    LET n == StrLen(text)
        cnt == IF n = 0 THEN 0
               ELSE IF n <= chunk_size THEN 1
               ELSE 1 + ((n - chunk_size) + SplitStep - 1) \div SplitStep
    IN  [j \in 1..cnt |->
            Slice(text, (j - 1) * SplitStep,
                  Min((j - 1) * SplitStep + chunk_size, n))]

---------------------------------------------------------------------------
(* Answers *)

FixedAnswer(id) == [kind |-> id, text |-> <<>>]
TextAnswer(t) == [kind |-> "text", text |-> t]

\* "No documents have been loaded yet. ..."
NoDocsAnswer == FixedAnswer("NoDocuments")
\* "I couldn't find relevant information ..."
NoRelevantAnswer == FixedAnswer("NoRelevant")
NoAnswer == FixedAnswer("none")

\* _generate_basic_answer with the threshold test off by one
GenerateBasicAnswerGE(question, context) ==
    LET answer == Take(context, AnswerCap)
        last_period == RFind(answer, ".")
    IN  IF StrLen(context) > AnswerCap /\ last_period >= MinContent
        THEN Take(answer, last_period + 1)
        ELSE answer

\* _generate_basic_answer(question, context)
GenerateBasicAnswer(question, context) ==
    LET answer == Take(context, AnswerCap)
        last_period == RFind(answer, ".")
    IN  IF StrLen(context) > AnswerCap /\ last_period > MinContent
        THEN Take(answer, last_period + 1)
        ELSE answer

\* What the generative backend does when invoked: it raises, or returns this
\* (already stripped) text.
BackendOutcomes == {[raises |-> TRUE, text |-> <<>>],
                    [raises |-> FALSE, text |-> <<>>],
                    [raises |-> FALSE, text |-> Str("I", 1)]}

\* _generate_openai_answer without its try/except
GenerateOpenAIAnswerNoCatch(question, context, outcome) ==
    IF outcome.raises
    THEN [raised |-> TRUE, answer |-> NoAnswer, backend |-> "failed"]
    ELSE [raised |-> FALSE, answer |-> TextAnswer(outcome.text), backend |-> "ok"]

GenerateOpenAIAnswer(question, context, outcome) ==
    IF outcome.raises
    THEN [raised |-> FALSE,
          answer |-> TextAnswer(GenerateBasicAnswer(question, context)),
          backend |-> "failed"]
    ELSE [raised |-> FALSE, answer |-> TextAnswer(outcome.text), backend |-> "ok"]

---------------------------------------------------------------------------
(* The documents directory and the decoder *)

\* What a file of the documents directory holds, by name.
FileNames == {"resume.pdf", "notes.txt", "bad.docx", "blank.txt", "readme.md"}

File(name) ==
    CASE name = "resume.pdf" ->
            [ext |-> ".pdf", corrupt |-> FALSE, text |-> Text(1300, {450, 950, 1250})]
      [] name = "notes.txt" ->
            [ext |-> ".txt", corrupt |-> FALSE, text |-> Cat(Text(12, {12}), Str("\n", 1))]
      [] name = "bad.docx" ->
            [ext |-> ".docx", corrupt |-> TRUE, text |-> <<>>]
      [] name = "blank.txt" ->
            [ext |-> ".txt", corrupt |-> FALSE, text |-> Cat(Str(" ", 1), Str("\n", 1))]
      [] name = "readme.md" ->
            [ext |-> ".md", corrupt |-> FALSE, text |-> Text(5, {})]

supported_extensions == {".pdf", ".docx", ".doc", ".txt"}

\* DocumentParser.parse_document: the text, stripped, or an exception
\* (ValueError for an unknown suffix, the decoder's error for bad content).
parse_document(name) ==
    LET f == File(name)
    IN  IF f.ext \notin {".pdf", ".docx", ".doc", ".txt"} \/ f.corrupt
        THEN [ok |-> FALSE, text |-> <<>>]
        ELSE [ok |-> TRUE, text |-> Strip(f.text)]

\* The for loop of _load_local_documents giving up at the first exception
RECURSIVE LoadLoopAbort(_, _)
LoadLoopAbort(doc_files, documents) ==
    IF doc_files = <<>> THEN documents
    ELSE LET r == parse_document(Head(doc_files))
         IN  IF r.ok
             THEN LoadLoopAbort(Tail(doc_files),
                     Append(documents, [name |-> Head(doc_files), text |-> r.text]))
             ELSE documents

\* The for loop of _load_local_documents: documents[file_path.name] = text
\* for every file that parses, in iteration order; a dict is a sequence of
\* (name, text) with distinct names.
RECURSIVE LoadLoop(_, _)
LoadLoop(doc_files, documents) ==
    IF doc_files = <<>> THEN documents
    ELSE LET r == parse_document(Head(doc_files))
         IN  LoadLoop(Tail(doc_files),
                 IF r.ok
                 THEN Append(documents, [name |-> Head(doc_files), text |-> r.text])
                 ELSE documents)

\* Every order in which the files of S can be iterated
RECURSIVE Orders(_)
Orders(S) ==
    IF S = {} THEN {<<>>}
    ELSE UNION {{<<x>> \o t : t \in Orders(S \ {x})} : x \in S}

\* The sequences of m distinct elements of S
RECURSIVE Arrangements(_, _)
Arrangements(S, m) ==
    IF m = 0 THEN {<<>>}
    ELSE UNION {{<<x>> \o t : t \in Arrangements(S \ {x}, m - 1)} : x \in S}

---------------------------------------------------------------------------
(* The index *)

None == [open |-> FALSE, chunks |-> <<>>]
Handle(chunks) == [open |-> TRUE, chunks |-> chunks]

Absent == [st |-> "absent", chunks |-> <<>>]
Corrupt == [st |-> "corrupt", chunks |-> <<>>]
Stored(chunks) == [st |-> "ok", chunks |-> chunks]

\* all_texts and metadatas of add_documents: the chunks of every document in
\* dict order, each with its source and its position in its document.
RECURSIVE ChunksOf(_)
ChunksOf(documents) ==
    IF documents = <<>> THEN <<>>
    ELSE LET chunks == split_text(documents[1].text)
         IN  [i \in 1..Len(chunks) |->
                 [content |-> chunks[i], source |-> documents[1].name,
                  chunk_id |-> i - 1]]
             \o ChunksOf(Tail(documents))

\* add_documents on (vectorstore, persisted directory).  libOk decides what
\* the index library does where the code leaves it open: from_texts over a
\* directory that failed to load, add_texts and persist on a handle whose
\* directory is gone.
add_documents(vs, dir, documents, libOk) ==
    LET all == ChunksOf(documents)
        same == [vs |-> vs, dir |-> dir, raised |-> FALSE, added |-> 0]
        fail == [vs |-> vs, dir |-> dir, raised |-> TRUE, added |-> 0]
        done(chunks) == [vs |-> Handle(chunks), dir |-> Stored(chunks),
                         raised |-> FALSE, added |-> Len(all)]
    IN  IF all = <<>> THEN same
        ELSE IF ~vs.open
        THEN CASE dir.st = "absent" -> done(all)
               [] dir.st = "ok" -> done(dir.chunks \o all)
               [] dir.st = "corrupt" -> IF libOk THEN done(all) ELSE fail
        ELSE IF dir.st = "ok" \/ libOk THEN done(vs.chunks \o all) ELSE fail

\* _load_local_documents on the documents directory, iterating doc_files in
\* the given order.
load_local_documents(vs, dir, docs, order, libOk) ==
    LET documents == LoadLoop(order, <<>>)
        skip == [vs |-> vs, dir |-> dir, raised |-> FALSE, added |-> 0]
    IN  IF ~docs.exists
        THEN [res |-> skip, docs |-> [exists |-> TRUE, files |-> {}], passed |-> <<>>]
        ELSE IF order = <<>> \/ documents = <<>>
        THEN [res |-> skip, docs |-> docs, passed |-> <<>>]
        ELSE [res |-> add_documents(vs, dir, documents, libOk), docs |-> docs,
              passed |-> [i \in 1..Len(documents) |-> documents[i].name]]

\* The glob of _load_local_documents
doc_files(docs) ==
    IF docs.exists
    THEN {n \in docs.files : File(n).ext \in supported_extensions}
    ELSE {}

---------------------------------------------------------------------------
(* Retrieval and answering *)

\* vectorstore.similarity_search_with_score(query, k) as the list search
\* returns: the chunks at the positions of ranking, nearest first.  The score
\* is the embedding distance, kept here as the rank.
Results(vs, ranking) ==
    [i \in 1..Len(ranking) |->
        [content |-> vs.chunks[ranking[i]].content,
         source |-> vs.chunks[ranking[i]].source,
         score |-> i]]

\* What the index can return for k: the embedding decides which
\* min(k, size) chunks are nearest and in which order, so every choice.
SimilaritySearch(vs, k) ==
    {Results(vs, ranking) :
        ranking \in Arrangements(1..Len(vs.chunks),
                                 Min(IF k < 0 THEN 0 ELSE k, Len(vs.chunks)))}

\* search without its test for a missing index: the call on None raises
searchNoGuard(vs, dir, query, k, hits, libOk) ==
    IF ~vs.open \/ ((dir.st # "ok" \/ k < 1) /\ ~libOk)
    THEN [results |-> <<>>, raised |-> TRUE, indexCall |-> TRUE]
    ELSE [results |-> hits, raised |-> FALSE, indexCall |-> TRUE]

\* search(query, k), hits being what the index returns when queried.  libOk
\* decides what the index library does where the code leaves it open: a
\* query on a handle whose directory is gone, a k below 1 (an exception, or
\* hits).
search(vs, dir, query, k, hits, libOk) ==
    IF ~vs.open
    THEN [results |-> <<>>, raised |-> FALSE, indexCall |-> FALSE]
    ELSE IF (dir.st # "ok" \/ k < 1) /\ ~libOk
    THEN [results |-> <<>>, raised |-> TRUE, indexCall |-> TRUE]
    ELSE [results |-> hits, raised |-> FALSE, indexCall |-> TRUE]

\* The source names of the retrieved chunks, each once, in retrieval order
RECURSIVE SourcesDedup(_)
SourcesDedup(relevant_docs) ==
    IF relevant_docs = <<>> THEN <<>>
    ELSE LET rest == SourcesDedup(SubSeq(relevant_docs, 1, Len(relevant_docs) - 1))
             s == relevant_docs[Len(relevant_docs)].source
         IN  IF \E i \in 1..Len(rest) : rest[i] = s THEN rest ELSE Append(rest, s)

\* The "sources" answer_question returns with a synthesized answer
Sources(relevant_docs) == <<>>

\* answer_question(question): what it returns.  hits and libOk are the
\* index's part of search(question, k=5), outcome the backend's.
AnswerResult(vs, dir, client, question, hits, libOk, outcome) ==
    LET found == search(vs, dir, question, AnswerK, hits, libOk)
        relevant_docs == found.results
        full_context == Join([i \in 1..Len(relevant_docs) |-> relevant_docs[i].content])
        none == [raised |-> FALSE, answer |-> NoAnswer, backend |-> "none"]
        gen == IF client
               THEN GenerateOpenAIAnswer(question, full_context, outcome)
               ELSE [raised |-> FALSE,
                     answer |-> TextAnswer(GenerateBasicAnswer(question, full_context)),
                     backend |-> "none"]
    IN  IF ~vs.open
        THEN [none EXCEPT !.answer = NoDocsAnswer]
             @@ [results |-> <<>>, sources |-> <<>>, context |-> <<>>, indexCall |-> FALSE]
        ELSE IF found.raised
        THEN [none EXCEPT !.raised = TRUE]
             @@ [results |-> <<>>, sources |-> <<>>, context |-> <<>>, indexCall |-> TRUE]
        ELSE IF relevant_docs = <<>>
        THEN [none EXCEPT !.answer = NoRelevantAnswer]
             @@ [results |-> <<>>, sources |-> <<>>, context |-> <<>>, indexCall |-> TRUE]
        ELSE gen @@ [results |-> relevant_docs,
                     sources |-> IF gen.raised THEN <<>> ELSE Sources(relevant_docs),
                     context |-> full_context, indexCall |-> TRUE]

\* clear_vectorstore dropping the handle and leaving the directory
clearKeepDir(vs, dir) ==
    IF dir.st # "absent" THEN [vs |-> None, dir |-> dir] ELSE [vs |-> vs, dir |-> dir]

\* clear_vectorstore removing the directory and keeping the handle
clearKeepHandle(vs, dir) == [vs |-> vs, dir |-> Absent]

\* clear_vectorstore on (vectorstore, persisted directory)
clear_vectorstore(vs, dir) ==
    IF dir.st # "absent" THEN [vs |-> None, dir |-> Absent] ELSE [vs |-> vs, dir |-> dir]

---------------------------------------------------------------------------
(* State *)

Last0 ==
    [op |-> "none", raised |-> FALSE, results |-> <<>>, answer |-> NoAnswer,
     sources |-> <<>>, backend |-> "none", context |-> <<>>, indexCall |-> FALSE,
     loadFailed |-> FALSE, passed |-> <<>>, order |-> <<>>, k |-> 0,
     added |-> 0]

Hist0 ==
    [ingested |-> FALSE,        \* add_documents has added a chunk, ever
     afterClearLoad |-> FALSE,  \* a clear, then a start, then only queries
     loadChunks |-> 0,          \* chunks the last start-up ingestion added
     extChange |-> FALSE,       \* the index directory was changed from outside
     prevAsk |-> "none"]        \* the backend's part in the answer_question
                                \* call before the last call, since the start

\* hist after a call op, given the state before it
HistAfter(op, added) ==
    [ingested |-> hist.ingested \/ added > 0,
     afterClearLoad |->
        CASE op = "init" -> last.op = "clear"
          [] op \in {"search", "ask"} -> hist.afterClearLoad
          [] OTHER -> FALSE,
     loadChunks |-> IF op = "init" THEN added ELSE hist.loadChunks,
     extChange |-> hist.extChange \/ op = "extdel",
     prevAsk |->
        IF op = "init" THEN "none"
        ELSE IF last.op = "ask" THEN last.backend ELSE hist.prevAsk]

\* The callers of the engine, and a caller that is in no call
Threads == 1..MaxThreads
Idle == [op |-> "none", pc |-> "idle", via |-> "none"]
NoCalls == [t \in Threads |-> Idle]

Init ==
    /\ docsDir \in {[exists |-> FALSE, files |-> {}]}
                   \cup {[exists |-> TRUE, files |-> S] :
                            S \in {T \in SUBSET FileNames : Cardinality(T) <= MaxFiles}}
    /\ persisted \in {Absent, Corrupt, Stored(<<>>)}
    /\ vectorstore = None
    /\ openai_client = FALSE
    /\ up = FALSE
    /\ last = Last0
    /\ hist = Hist0
    /\ calls = NoCalls

---------------------------------------------------------------------------
(* Operations *)

Queries == {"What languages do you know?", "nonexistent topic"}

\* The documents a caller of add_documents passes
DocInputs ==
    {<<>>,
     <<[name |-> "empty.txt", text |-> <<>>]>>,
     <<[name |-> "notes.txt", text |-> Text(12, {12})]>>}

\* The index library's behaviour is open (it may work or raise) on a handle
\* whose directory is gone and on a directory that does not load; elsewhere
\* it works.
LibChoices(vs, dir) ==
    IF (vs.open /\ dir.st # "ok") \/ dir.st = "corrupt" THEN BOOLEAN ELSE {TRUE}

\* __init__: openai_client is set when a key is configured and OpenAI(...)
\* does not raise
InitClient(key, ctorOk) == key /\ ctorOk

\* _initialize_vectorstore up to its call of _load_local_documents: an
\* existing directory is opened, and a failure to open it is caught
initialize_vectorstore(dir) ==
    CASE dir.st = "absent" -> [vs |-> None, loadFailed |-> FALSE]
      [] dir.st = "ok" -> [vs |-> Handle(dir.chunks), loadFailed |-> FALSE]
      [] dir.st = "corrupt" -> [vs |-> None, loadFailed |-> TRUE]

\* rag_service = SimpleRAG(): a process starts and builds the engine.  An
\* exception that leaves __init__ leaves the process without an engine.
Construct ==
    \E client \in {InitClient(key, ctorOk) : key \in BOOLEAN, ctorOk \in BOOLEAN},
       libOk \in LibChoices(None, persisted),
       order \in Orders(doc_files(docsDir)) :
        \E opened \in {initialize_vectorstore(persisted)} :
        \E ll \in {load_local_documents(opened.vs, persisted, docsDir, order, libOk)} :
            /\ Len(ll.res.vs.chunks) <= MaxChunks
            /\ docsDir' = ll.docs
            /\ persisted' = ll.res.dir
            /\ vectorstore' = IF ll.res.raised THEN None ELSE ll.res.vs
            /\ openai_client' = (~ll.res.raised /\ client)
            /\ up' = ~ll.res.raised
            /\ last' = [Last0 EXCEPT !.op = "init", !.raised = ll.res.raised,
                                     !.loadFailed = opened.loadFailed,
                                     !.passed = ll.passed, !.order = order,
                                     !.added = ll.res.added]
            /\ hist' = HistAfter("init", ll.res.added)
            /\ UNCHANGED calls

\* rag_service.add_documents(documents)
AddDocuments ==
    /\ up
    /\ \E documents \in DocInputs, libOk \in LibChoices(vectorstore, persisted) :
        \E r \in {add_documents(vectorstore, persisted, documents, libOk)} :
            /\ Len(r.vs.chunks) <= MaxChunks
            /\ vectorstore' = r.vs
            /\ persisted' = r.dir
            /\ last' = [Last0 EXCEPT !.op = "add", !.raised = r.raised,
                                     !.added = r.added]
            /\ hist' = HistAfter("add", r.added)
    /\ UNCHANGED <<docsDir, openai_client, up, calls>>

\* rag_service.search(query, k)
Search ==
    /\ up
    /\ \E query \in Queries, k \in (-1)..MaxK :
       \E libOk \in (IF vectorstore.open /\ k < 1
                     THEN BOOLEAN ELSE LibChoices(vectorstore, persisted)) :
        \E hits \in SimilaritySearch(vectorstore, k) :
            \E r \in {search(vectorstore, persisted, query, k, hits, libOk)} :
                last' = [Last0 EXCEPT !.op = "search", !.raised = r.raised,
                                      !.results = r.results,
                                      !.indexCall = r.indexCall, !.k = k]
    /\ hist' = HistAfter("search", 0)
    /\ UNCHANGED <<docsDir, persisted, vectorstore, openai_client, up, calls>>

\* What answer_question changes, openai_client apart
AnswerEffects(r) ==
    /\ last' = [Last0 EXCEPT !.op = "ask", !.raised = r.raised,
                             !.results = r.results, !.answer = r.answer,
                             !.sources = r.sources, !.backend = r.backend,
                             !.context = r.context, !.indexCall = r.indexCall]
    /\ hist' = HistAfter("ask", 0)
    /\ UNCHANGED <<docsDir, persisted, vectorstore, up, calls>>

\* answer_question dropping the client once the backend has failed
answer_questionSticky(question, hits, libOk, outcome) ==
    \E r \in {AnswerResult(vectorstore, persisted, openai_client, question,
                          hits, libOk, outcome)} :
        /\ AnswerEffects(r)
        /\ openai_client' = (openai_client /\ r.backend # "failed")

\* rag_service.answer_question(question)
answer_question(question, hits, libOk, outcome) ==
    \E r \in {AnswerResult(vectorstore, persisted, openai_client, question,
                          hits, libOk, outcome)} :
        /\ AnswerEffects(r)
        /\ UNCHANGED openai_client

AnswerQuestion ==
    /\ up
    /\ \E question \in Queries, libOk \in LibChoices(vectorstore, persisted),
          outcome \in (IF openai_client /\ vectorstore.open
                       THEN BackendOutcomes ELSE {CHOOSE o \in BackendOutcomes : TRUE}) :
        \E hits \in SimilaritySearch(vectorstore, AnswerK) :
            answer_question(question, hits, libOk, outcome)

\* rag_service.clear_vectorstore()
ClearVectorstore ==
    /\ up
    /\ LET r == clear_vectorstore(vectorstore, persisted)
       IN  /\ vectorstore' = r.vs
           /\ persisted' = r.dir
    /\ last' = [Last0 EXCEPT !.op = "clear"]
    /\ hist' = HistAfter("clear", 0)
    /\ UNCHANGED <<docsDir, openai_client, up, calls>>

\* The persisted-index directory is deleted from outside the engine
ExternalDelete ==
    /\ persisted.st # "absent"
    /\ persisted' = Absent
    /\ last' = [Last0 EXCEPT !.op = "extdel"]
    /\ hist' = HistAfter("extdel", 0)
    /\ UNCHANGED <<docsDir, vectorstore, openai_client, up, calls>>

Next ==
    \/ Construct
    \/ AddDocuments
    \/ Search
    \/ AnswerQuestion
    \/ ClearVectorstore
    \/ ExternalDelete

Spec == Init /\ [][Next]_vars

---------------------------------------------------------------------------
(* The extractive answer on its own *)

\* Context lengths and terminator positions around the cap and the threshold
BasicLens == {0, 1, 500, 501, 502, 503, 1199, 1200, 1201, 1202, 1300, 2400}
BasicDots == {1, 500, 501, 502, 503, 1199, 1200, 1201, 1300}

BasicContexts ==
    {Text(n, D) : n \in BasicLens,
                  D \in {E \in SUBSET BasicDots : Cardinality(E) <= MaxDots}}
    \cup {Join(<<Text(1000, D), Text(300, {300})>>) :
            D \in {E \in SUBSET BasicDots : Cardinality(E) <= MaxDots}}

InitBasic ==
    /\ docsDir = [exists |-> FALSE, files |-> {}]
    /\ persisted = Absent
    /\ vectorstore = None
    /\ openai_client = FALSE
    /\ up = FALSE
    /\ hist = Hist0
    /\ calls = NoCalls
    /\ \E c \in BasicContexts : last = [Last0 EXCEPT !.op = "context", !.context = c]

\* _generate_basic_answer(question, context) is called on the context
BasicAnswer ==
    /\ last.op = "context"
    /\ \E question \in Queries :
        last' = [last EXCEPT !.op = "basic",
                    !.answer = TextAnswer(GenerateBasicAnswer(question, last.context))]
    /\ UNCHANGED <<docsDir, persisted, vectorstore, openai_client, up, hist, calls>>

NextBasic == BasicAnswer

BasicSpec == InitBasic /\ [][NextBasic]_vars

---------------------------------------------------------------------------
(* Concurrent callers *)

\* The engine's methods take no lock, so the calls of concurrent callers
\* interleave between any two of their reads and writes of self.vectorstore
\* and of the directory.  Each caller is at one of these places.

\* The document a concurrent add_documents call passes
ConcDocument == <<[name |-> "notes.txt", text |-> Text(12, {12})]>>

\* add_documents calls that have not yet written their chunks
PendingAdds ==
    Cardinality({t \in Threads :
        calls[t].op = "add" /\ calls[t].pc \in {"start", "write", "writing"}})

\* The larger of the chunk counts of the handle and of the directory
IndexSize ==
    IF Len(vectorstore.chunks) > Len(persisted.chunks)
    THEN Len(vectorstore.chunks) ELSE Len(persisted.chunks)

InitConc ==
    /\ docsDir = [exists |-> TRUE, files |-> {}]
    /\ \E chunks \in {<<>>, ChunksOf(ConcDocument)} :
        \/ vectorstore = None /\ persisted = Absent
        \/ vectorstore = Handle(chunks) /\ persisted = Stored(chunks)
    /\ openai_client = FALSE
    /\ up = TRUE
    /\ last = Last0
    /\ hist = Hist0
    /\ calls = NoCalls

At(t, op, pc) == calls[t].op = op /\ calls[t].pc = pc

Goto(t, pc) == calls' = [calls EXCEPT ![t].pc = pc]

\* The call of t returns, or raises
Return(t, raised) ==
    /\ calls' = [calls EXCEPT ![t] = Idle]
    /\ last' = [Last0 EXCEPT !.op = calls[t].op, !.raised = raised]

\* A caller enters search, answer_question, add_documents or clear_vectorstore
Enter(t) ==
    /\ calls[t] = Idle
    /\ \E op \in {"search", "ask", "add", "clear"} :
        /\ op = "add" => IndexSize + PendingAdds < MaxChunks
        /\ calls' = [calls EXCEPT ![t] = [op |-> op, pc |-> "start", via |-> "none"]]
    /\ UNCHANGED <<docsDir, persisted, vectorstore, openai_client, up, last, hist>>

\* answer_question: if self.vectorstore is None: return the fixed message
AskCheck(t) ==
    /\ At(t, "ask", "start")
    /\ IF vectorstore.open
       THEN Goto(t, "check") /\ UNCHANGED last
       ELSE Return(t, FALSE)
    /\ UNCHANGED <<docsDir, persisted, vectorstore, openai_client, up, hist>>

\* search: if self.vectorstore is None: return []
SearchCheck(t) ==
    /\ At(t, "search", "start") \/ At(t, "ask", "check")
    /\ IF vectorstore.open
       THEN Goto(t, "call") /\ UNCHANGED last
       ELSE Return(t, FALSE)
    /\ UNCHANGED <<docsDir, persisted, vectorstore, openai_client, up, hist>>

\* search: self.vectorstore.similarity_search_with_score(...) is entered; the
\* attribute is read again, and the call on None raises
QueryCall(t) ==
    /\ calls[t].op \in {"search", "ask"} /\ calls[t].pc = "call"
    /\ IF vectorstore.open
       THEN Goto(t, "reading") /\ UNCHANGED last
       ELSE Return(t, TRUE)
    /\ UNCHANGED <<docsDir, persisted, vectorstore, openai_client, up, hist>>

\* The index query returns (or raises, the directory being gone), and with it
\* search or answer_question
QueryReturn(t) ==
    /\ calls[t].op \in {"search", "ask"} /\ calls[t].pc = "reading"
    /\ \E raised \in (IF persisted.st = "ok" THEN {FALSE} ELSE BOOLEAN) :
        Return(t, raised)
    /\ UNCHANGED <<docsDir, persisted, vectorstore, openai_client, up, hist>>

\* add_documents: the chunks are there; if self.vectorstore is None
AddCheck(t) ==
    /\ At(t, "add", "start")
    /\ calls' = [calls EXCEPT ![t].pc = "write",
                    ![t].via = IF vectorstore.open THEN "add_texts" ELSE "from_texts"]
    /\ UNCHANGED <<docsDir, persisted, vectorstore, openai_client, up, last, hist>>

\* add_documents: Chroma.from_texts(...) or self.vectorstore.add_texts(...)
\* is entered; the latter reads the attribute again and raises on None
AddWrite(t) ==
    /\ At(t, "add", "write")
    /\ IF calls[t].via = "add_texts" /\ ~vectorstore.open
       THEN Return(t, TRUE)
       ELSE Goto(t, "writing") /\ UNCHANGED last
    /\ UNCHANGED <<docsDir, persisted, vectorstore, openai_client, up, hist>>

\* The write of the chunks ends: from_texts gives a handle on the directory's
\* collection with the chunks added and it is assigned; add_texts has added
\* them to the index it was called on
AddWritten(t) ==
    /\ At(t, "add", "writing")
    /\ vectorstore' =
        IF calls[t].via = "from_texts"
        THEN Handle(persisted.chunks \o ChunksOf(ConcDocument))
        ELSE IF vectorstore.open
        THEN Handle(vectorstore.chunks \o ChunksOf(ConcDocument))
        ELSE vectorstore
    /\ Goto(t, "persist")
    /\ UNCHANGED <<docsDir, persisted, openai_client, up, last, hist>>

\* add_documents: self.vectorstore.persist(), which raises on None
AddPersist(t) ==
    /\ At(t, "add", "persist")
    /\ IF vectorstore.open
       THEN persisted' = Stored(vectorstore.chunks) /\ Return(t, FALSE)
       ELSE UNCHANGED persisted /\ Return(t, TRUE)
    /\ UNCHANGED <<docsDir, vectorstore, openai_client, up, hist>>

\* clear_vectorstore: if os.path.exists(...): shutil.rmtree(...) is entered
ClearCheck(t) ==
    /\ At(t, "clear", "start")
    /\ IF persisted.st # "absent"
       THEN Goto(t, "removing") /\ UNCHANGED last
       ELSE Return(t, FALSE)
    /\ UNCHANGED <<docsDir, persisted, vectorstore, openai_client, up, hist>>

\* rmtree ends: the directory is gone, or it was already and rmtree raises
ClearRemoved(t) ==
    /\ At(t, "clear", "removing")
    /\ IF persisted.st # "absent"
       THEN persisted' = Absent /\ Goto(t, "setNone") /\ UNCHANGED last
       ELSE UNCHANGED persisted /\ Return(t, TRUE)
    /\ UNCHANGED <<docsDir, vectorstore, openai_client, up, hist>>

\* clear_vectorstore: self.vectorstore = None
ClearSetNone(t) ==
    /\ At(t, "clear", "setNone")
    /\ vectorstore' = None
    /\ Return(t, FALSE)
    /\ UNCHANGED <<docsDir, persisted, openai_client, up, hist>>

NextConc ==
    \/ \E t \in Threads : Enter(t)
    \/ \E t \in Threads : AskCheck(t)
    \/ \E t \in Threads : SearchCheck(t)
    \/ \E t \in Threads : QueryCall(t)
    \/ \E t \in Threads : QueryReturn(t)
    \/ \E t \in Threads : AddCheck(t)
    \/ \E t \in Threads : AddWrite(t)
    \/ \E t \in Threads : AddWritten(t)
    \/ \E t \in Threads : AddPersist(t)
    \/ \E t \in Threads : ClearCheck(t)
    \/ \E t \in Threads : ClearRemoved(t)
    \/ \E t \in Threads : ClearSetNone(t)

ConcSpec == InitConc /\ [][NextConc]_vars

---------------------------------------------------------------------------
(* Properties *)

\* The character of s at 0-based index i
CharAt(s, i) == Take(Drop(s, i), 1)[1].c

\* The 0-based index of the last "." among the first AnswerCap characters of
\* c, -1 when there is none
LastTerminator(c) ==
    LET D == {i \in 0..(Min(StrLen(c), AnswerCap) - 1) : CharAt(c, i) = "."}
    IN  IF D = {} THEN -1 ELSE CHOOSE i \in D : \A j \in D : j <= i

ContentsOf(results) == [i \in 1..Len(results) |-> results[i].content]

SourceSet(results) == {results[i].source : i \in 1..Len(results)}

\* C1: as long as add_documents has never added a chunk, answer_question
\* returns the fixed "no documents loaded" message and no sources, whatever
\* the persisted-index directory held when the process started.
C1_NeverIngestedNoDocs ==
    (last.op = "ask" /\ ~hist.ingested /\ ~last.raised)
        => (last.answer = NoDocsAnswer /\ last.sources = <<>>)

\* C2: when the generative backend is configured and raises, answer_question
\* on a non-empty index returns normally, and its answer is the non-empty
\* extractive answer of the context joined from the chunks it retrieved.
C2_BackendFailureFallsBack ==
    (last.op = "ask" /\ last.backend = "failed")
        => /\ ~last.raised
           /\ last.results # <<>>
           /\ last.context = Join(ContentsOf(last.results))
           /\ last.answer.kind = "text"
           /\ last.answer.text # <<>>
           /\ \A q \in Queries :
                last.answer.text = GenerateBasicAnswer(q, last.context)

C2_Witness ==
    /\ last.op = "ask" /\ last.backend = "failed" /\ openai_client
    /\ StrLen(last.context) > AnswerCap
    /\ StrLen(last.answer.text) < AnswerCap

\* No index exists, and an answer_question since then returned the fixed
\* "no documents" answer with no sources
NoIndexNoDocs ==
    /\ ~vectorstore.open
    /\ last.op = "ask" => (last.answer = NoDocsAnswer /\ last.sources = <<>>)

\* C3 as claimed: after clear() followed by the load step of a process
\* start, no index exists and answer_question returns the fixed "no
\* documents" answer with no sources.
C3_ClearThenLoadNoIndex == hist.afterClearLoad => NoIndexNoDocs

\* C3 as amended: after clear() followed by the load step of a process
\* start whose ingestion of the documents directory added no chunk, no index
\* exists and answer_question returns the fixed "no documents" answer with
\* no sources.
C3_ClearThenLoadNoIndexUnlessIngested ==
    (hist.afterClearLoad /\ hist.loadChunks = 0) => NoIndexNoDocs

C3_Witness ==
    /\ hist.afterClearLoad /\ hist.loadChunks = 0
    /\ hist.ingested
    /\ last.op = "ask"

\* C4 as claimed: when answer_question retrieves at least one chunk, its
\* sources are the set of the source names of the retrieved chunks.
C4_SourcesAreRetrievedNames ==
    (last.op = "ask" /\ ~last.raised /\ last.results # <<>>)
        => {last.sources[i] : i \in 1..Len(last.sources)} = SourceSet(last.results)

\* C4 as amended: when answer_question retrieves at least one chunk, the
\* sources it returns are empty, whatever the source names of the retrieved
\* chunks.
C4_SourcesSuppressed ==
    (last.op = "ask" /\ ~last.raised /\ last.results # <<>>)
        => last.sources = <<>>

C4_Witness ==
    /\ last.op = "ask" /\ ~last.raised
    /\ SourceSet(last.results) = {"notes.txt"}
    /\ last.answer.kind = "text"

\* C5: when clear_vectorstore returns, the persisted directory is gone and
\* the handle is None, also when the directory was already deleted under a
\* handle still held.
C5_ClearLeavesNothing ==
    (last.op = "clear" /\ ~last.raised)
        => (persisted.st = "absent" /\ ~vectorstore.open)

\* C6: nothing but construction changes openai_client, and every
\* answer_question that retrieves a chunk with the client set invokes the
\* backend, also when the backend failed in the call before.
C6_ModeFixedAtConstruction ==
    /\ [][last'.op # "init" => openai_client' = openai_client]_vars
    /\ []((last.op = "ask" /\ openai_client /\ last.results # <<>>)
            => last.backend \in {"ok", "failed"})
    /\ []((last.op = "ask" /\ hist.prevAsk = "failed" /\ last.results # <<>>)
            => (openai_client /\ last.backend \in {"ok", "failed"}))

C6_Witness ==
    /\ last.op = "ask" /\ hist.prevAsk = "failed"
    /\ last.backend = "ok"

\* C7: search with no index returns an empty list, raises nothing, makes no
\* index call and changes no state of the engine or the disk, for every
\* query and k.
C7_SearchWithoutIndex ==
    [][(last'.op = "search" /\ ~vectorstore.open)
        => /\ last'.results = <<>>
           /\ ~last'.raised
           /\ ~last'.indexCall
           /\ UNCHANGED <<docsDir, persisted, vectorstore, openai_client, up>>]_vars

C7_Witness ==
    /\ last.op = "search" /\ ~vectorstore.open /\ last.k >= 1
    /\ up /\ hist.ingested

\* C8: the extractive answer is a prefix of the context of at most 1200
\* characters: the context itself when it has at most 1200, else the
\* context up to and including its last "." among the first 1200 when that
\* one lies beyond index 500, else its first 1200 characters.
C8_BasicAnswerIsBoundedPrefix ==
    last.op = "basic" =>
        LET c == last.context
            a == last.answer.text
            p == LastTerminator(c)
        IN  /\ StrLen(a) <= AnswerCap
            /\ a = Take(c, StrLen(a))
            /\ StrLen(c) <= AnswerCap => a = c
            /\ (StrLen(c) > AnswerCap /\ p > MinContent) => a = Take(c, p + 1)
            /\ (StrLen(c) > AnswerCap /\ p <= MinContent) => a = Take(c, AnswerCap)

C8_Witness ==
    /\ last.op = "basic"
    /\ StrLen(last.context) > AnswerCap
    /\ LastTerminator(last.context) = MinContent + 1
    /\ StrLen(last.answer.text) = MinContent + 2

\* C9: a failure to load the persisted index at start-up is fatal: the
\* construction raises and leaves no engine and no index.
C9_LoadFailureIsFatal ==
    (last.op = "init" /\ last.loadFailed)
        => (last.raised /\ ~up /\ ~vectorstore.open)

\* The chunk i of document name is in the index chunks
Indexed(chunks, name, i, content) ==
    \E j \in 1..Len(chunks) :
        chunks[j] = [content |-> content, source |-> name, chunk_id |-> i - 1]

\* C10: at start-up, the documents passed to add_documents are exactly the
\* supported documents of the directory that decode, whatever the order of
\* iteration and wherever the failing ones come in it, and unless the index
\* itself raises every chunk of each of them is indexed.
C10_BadDocumentSkipped ==
    last.op = "init" =>
        LET good == {n \in doc_files(docsDir) : ~File(n).corrupt}
        IN  /\ {last.passed[i] : i \in 1..Len(last.passed)} = good
            /\ Len(last.passed) = Cardinality(good)
            /\ ~last.raised =>
                \A n \in good :
                    LET chunks == split_text(Strip(File(n).text))
                    IN  \A i \in 1..Len(chunks) :
                            /\ Indexed(vectorstore.chunks, n, i, chunks[i])
                            /\ Indexed(persisted.chunks, n, i, chunks[i])

C10_Witness ==
    /\ last.op = "init" /\ ~last.raised
    /\ Len(last.order) = 2
    /\ File(last.order[1]).corrupt
    /\ last.passed = <<last.order[2]>>
    /\ \E j \in 1..Len(vectorstore.chunks) :
            vectorstore.chunks[j].source = last.order[2]

\* Every chunk_id of chunks is a non-negative integer, and no two of the
\* chunks have the same source and chunk_id
UniquePerSource(chunks) ==
    /\ \A i \in 1..Len(chunks) : chunks[i].chunk_id \in Nat
    /\ \A i, j \in 1..Len(chunks) :
        (i # j) => <<chunks[i].source, chunks[i].chunk_id>>
                    # <<chunks[j].source, chunks[j].chunk_id>>

\* C12: in every index state, after any process starts, add_documents calls
\* and clears, each chunk_id is a non-negative integer and no two chunks of
\* the index share a (source, chunk_id) pair.
C12_ChunkIdUniquePerSource ==
    UniquePerSource(vectorstore.chunks) /\ UniquePerSource(persisted.chunks)

\* C13: as long as nothing outside the engine touches the index directory,
\* the directory exists whenever the handle does; and an add_documents that
\* yields no chunk leaves the handle and the persisted store as they were.
C13_HandleImpliesDirectory ==
    /\ []((~hist.extChange /\ vectorstore.open) => persisted.st # "absent")
    /\ [][(last'.op = "add" /\ ~last'.raised /\ last'.added = 0)
            => UNCHANGED <<vectorstore, persisted>>]_vars

C13_Witness ==
    /\ last.op = "add" /\ ~last.raised /\ last.added = 0
    /\ vectorstore.open /\ ~hist.extChange
    /\ hist.ingested

\* A write of the index by t is in progress: the chunks being added, the
\* directory being removed
Writing(t) == calls[t].pc \in {"writing", "removing"}

\* A query of t is reading the index
Reading(t) == calls[t].pc = "reading"

\* C11: with concurrent callers, while add_documents or clear_vectorstore is
\* writing the index no other write is in progress and no search or
\* answer_question is reading the index.
C11_WritesExclusive ==
    \A t, u \in Threads :
        (t # u /\ Writing(t)) => (~Writing(u) /\ ~Reading(u))

====
